---- MODULE Spec2Model ----
(***************************************************************************)
(* Model of pyop2/utils.py: the argument-validation decorators             *)
(* (validate_base and its four subclasses) and verify_reshape.             *)
(*                                                                         *)
(* Python values are records [ty, v]; a call is the pair (args, kwargs)    *)
(* that wrapper(f, *args, **kwargs) receives; the decorator object is the  *)
(* record `self` of the attributes wrapper writes on it.                   *)
(***************************************************************************)
EXTENDS Integers, Sequences, FiniteSets, TLC

VARIABLES
    gate,       \* configuration["type_check"]
    reenabled,  \* history: the gate has been false and was set true again
    kind,       \* class of the decorator object (which check_arg it has)
    checks,     \* self._checks
    decorated,  \* the functions the decorator object was applied to
    self,       \* self.nargs, .defaults, .varnames, .file, .line
    last,       \* the last completed sequential call of a decorated function
    th,         \* threads calling decorated functions concurrently
    vr          \* a verify_reshape call: its inputs and its outcome

vars == <<gate, reenabled, kind, checks, decorated, self, last, th, vr>>

----------------------------------------------------------------------------
(* Bounds *)

MaxInt == 2          \* integer values are 0..MaxInt
MaxSupplied == 2     \* arguments supplied in one sequential call
MTMaxInt == 1        \* integer values of the concurrent calls
MTMaxSupplied == 1   \* arguments supplied in one concurrent call
MaxLen == 4          \* length of a flat data list
MaxRows == 2         \* rows, and length of a row, of nested data
MaxDim == 4          \* extent of one dimension of a shape
MaxRank == 2         \* number of dimensions of a shape

----------------------------------------------------------------------------
(* Python values *)

None == [ty |-> "NoneType", v |-> 0]
PyInt(n) == [ty |-> "int", v |-> n]
\* strings, numbered in lexicographic order:
\* "" < "bogus" < "float64" < "int32"
Str(k) == [ty |-> "str", v |-> k]
StrEmpty == Str(0)
StrBogus == Str(1)
StrFloat64 == Str(2)
StrInt32 == Str(3)

Ints(maxInt) == {PyInt(n) : n \in 0..maxInt}
Vals(maxInt) == {None} \cup Ints(maxInt)

\* bool(a): None, 0 and "" are false
Truthy(a) ==
    CASE a.ty = "NoneType" -> FALSE
      [] a.ty = "int" -> a.v # 0
      [] a.ty = "str" -> a.v # 0

\* Python 2 ordering of mixed types: None < numbers < strings
TypeRank(a) ==
    CASE a.ty = "NoneType" -> 0
      [] a.ty = "int" -> 1
      [] a.ty = "str" -> 2

PyLe(a, b) ==
    IF a.ty = b.ty THEN a.v <= b.v ELSE TypeRank(a) < TypeRank(b)

\* np.dtype(x) succeeds: None (float64) and the names of element types
NpDtypeOk(x) == x \in {None, StrInt32, StrFloat64}

\* the name of np.dtype(x)
NpDtype(x) == IF x = StrInt32 THEN "int32" ELSE "float64"

----------------------------------------------------------------------------
(* The decorated functions, as their func_code / func_defaults *)

\* def f(x, y=1): t = ...
F1 == [name |-> "f", co_varnames |-> <<"x", "y", "t">>, co_argcount |-> 2,
       func_defaults |-> <<PyInt(1)>>, varargs |-> FALSE, varkw |-> FALSE,
       co_filename |-> "a.py", co_firstlineno |-> 10]

\* def g(y=None, x=0): pass
F2 == [name |-> "g", co_varnames |-> <<"y", "x">>, co_argcount |-> 2,
       func_defaults |-> <<None, PyInt(0)>>, varargs |-> FALSE, varkw |-> FALSE,
       co_filename |-> "b.py", co_firstlineno |-> 20]

\* def h(y, *rest, **kw): x = ...
F3 == [name |-> "h", co_varnames |-> <<"y", "rest", "kw", "x">>,
       co_argcount |-> 1, func_defaults |-> <<>>, varargs |-> TRUE,
       varkw |-> TRUE, co_filename |-> "c.py", co_firstlineno |-> 30]

Functions == {F1, F2, F3}

Formals(fn) == {fn.co_varnames[j] : j \in 1..fn.co_argcount}

\* the names callers pass through **kw
KwExtra == {"x"}

Min(a, b) == IF a < b THEN a ELSE b

\* decorator(wrapper, f) (line 132) is taken to hand the positional and the
\* keyword arguments of a call to wrapper as args and kwargs.
\* The calls of fn that Python binds without a TypeError: p positional
\* arguments (more than co_argcount only with *args), keywords for formals
\* not given by position (any other name only with **kw), every formal
\* without a default supplied.
Calls(fn, vals, maxSupplied) ==
    LET maxPos == IF fn.varargs THEN maxSupplied
                  ELSE Min(fn.co_argcount, maxSupplied)
        required == {fn.co_varnames[j] :
                        j \in 1..(fn.co_argcount - Len(fn.func_defaults))}
    IN  UNION { LET byPos == {fn.co_varnames[j] :
                                j \in 1..Min(p, fn.co_argcount)}
                    kwNames == (Formals(fn) \ byPos) \cup
                               (IF fn.varkw THEN KwExtra \ Formals(fn)
                                ELSE {})
                IN  UNION { { [args |-> a, kwargs |-> k] :
                                a \in [1..p -> vals], k \in [K -> vals] } :
                            K \in { S \in SUBSET kwNames :
                                      /\ p + Cardinality(S) <= maxSupplied
                                      /\ required \subseteq (byPos \cup S) } }
              : p \in 0..maxPos }

\* the call of f in wrapper: f is opaque; its result is a function of what it got
FResult(fn, args, kwargs) == [by |-> fn.name, args |-> args, kwargs |-> kwargs]

----------------------------------------------------------------------------
(* The decorator objects, each constructed from its tuple of checks *)

Decl(n, c, e) == [argname |-> n, argcond |-> c, exception |-> e]

\* validate_type(('x', int, DataTypeError), ('y', (int, NoneType), TypeError), ...)
D_type ==
    [kind |-> "validate_type",
     checks |-> << Decl("x", {"int"}, "DataTypeError"),
                   Decl("y", {"int", "NoneType"}, "TypeError"),
                   Decl("rest", {"int"}, "RuntimeError"),
                   Decl("z", {"str"}, "KeyError") >>]

\* validate_in(('x', [1, 2], DataValueError), ...)
D_in ==
    [kind |-> "validate_in",
     checks |-> << Decl("x", {PyInt(1), PyInt(2)}, "DataValueError"),
                   Decl("y", {None, PyInt(0)}, "ValueError"),
                   Decl("rest", {PyInt(1)}, "RuntimeError"),
                   Decl("z", {None}, "KeyError") >>]

\* validate_range(('x', (1, 1), DataValueError), ...)
D_range ==
    [kind |-> "validate_range",
     checks |-> << Decl("x", <<PyInt(1), PyInt(1)>>, "DataValueError"),
                   Decl("y", <<PyInt(0), PyInt(1)>>, "ValueError"),
                   Decl("rest", <<PyInt(1), PyInt(2)>>, "RuntimeError"),
                   Decl("z", <<PyInt(0), PyInt(0)>>, "KeyError") >>]

\* validate_dtype(('x', None, DataTypeError), ...)
D_dtype ==
    [kind |-> "validate_dtype",
     checks |-> << Decl("x", None, "DataTypeError"),
                   Decl("y", None, "TypeError"),
                   Decl("rest", None, "RuntimeError"),
                   Decl("z", None, "KeyError") >>]

Decorators == <<D_type, D_in, D_range, D_dtype>>

----------------------------------------------------------------------------
(* check_arg of the four subclasses.  The result is the exception raised,  *)
(* or NoExc.  A message is its template and the tuple of its format        *)
(* arguments after (self.file, self.line); each format argument is tagged  *)
(* with the variable of check_arg it is: the value or the domain.          *)

NoMsg == [file |-> "", line |-> 0, template |-> "", fmtargs |-> <<>>]
NoExc == [raised |-> FALSE, exc |-> "", msg |-> NoMsg]
Exc(e, m) == [raised |-> TRUE, exc |-> e, msg |-> m]
FmtValue(arg) == [tag |-> "value", x |-> arg]
FmtDomain(cond) == [tag |-> "domain", x |-> cond]

validate_type_check_arg(slf, arg, argtype, exception) ==
    IF ~(arg.ty \in argtype)
    THEN Exc(exception,
             [file |-> slf.file, line |-> slf.line,
              template |-> "%s:%d Parameter %s must be of type %r",
              fmtargs |-> <<FmtValue(arg), FmtDomain(argtype)>>])
    ELSE NoExc

validate_in_check_arg(slf, arg, values, exception) ==
    IF arg \notin values
    THEN Exc(exception,
             [file |-> slf.file, line |-> slf.line,
              template |-> "%s:%d %s must be one of %s",
              fmtargs |-> <<FmtValue(arg), FmtDomain(values)>>])
    ELSE NoExc

validate_range_check_arg(slf, arg, range, exception) ==
    IF ~(PyLe(range[1], arg) /\ PyLe(arg, range[2]))
    THEN Exc(exception,
             [file |-> slf.file, line |-> slf.line,
              template |-> "%s:%d %s must be within range %s",
              fmtargs |-> <<FmtValue(arg), FmtDomain(range)>>])
    ELSE NoExc

validate_dtype_check_arg(slf, arg, ignored, exception) ==
    IF ~NpDtypeOk(arg)
    THEN Exc(exception,
             [file |-> slf.file, line |-> slf.line,
              template |-> "%s:%d %s must be a valid dtype",
              fmtargs |-> <<FmtValue(arg)>>])
    ELSE NoExc

\* self.check_arg: dispatch on the class of the decorator object
check_arg(knd, slf, arg, argcond, exception) ==
    CASE knd = "validate_type" ->
            validate_type_check_arg(slf, arg, argcond, exception)
      [] knd = "validate_in" ->
            validate_in_check_arg(slf, arg, argcond, exception)
      [] knd = "validate_range" ->
            validate_range_check_arg(slf, arg, argcond, exception)
      [] knd = "validate_dtype" ->
            validate_dtype_check_arg(slf, arg, argcond, exception)

----------------------------------------------------------------------------
(* validate_base.check_args *)

\* seq.index(x), 0-based; -1 stands for ValueError
IndexOf(seq, x) ==
    IF \E j \in 1..Len(seq) : seq[j] = x
    THEN (CHOOSE j \in 1..Len(seq) :
             seq[j] = x /\ \A m \in 1..(j - 1) : seq[m] # x) - 1
    ELSE -1

\* kwargs.get(argname)
kwargs_get(kwargs, argname) ==
    IF argname \in DOMAIN kwargs THEN kwargs[argname] ELSE None

\* what one turn of the loop did with its declaration
Entry(k, decl, status, resolved, value, e) ==
    [k |-> k, argname |-> decl.argname, status |-> status,
     resolved |-> resolved, value |-> value, exc |-> e.exc, msg |-> e.msg]

\* mutant: the defaults aligned to the leading parameters
default_index_leading(slf, i) == i

\* default_index = i - self.nargs + len(self.defaults)
default_index(slf, i) == i - slf.nargs + Len(slf.defaults)

\* one turn of the loop of check_args, for the k-th declaration
check_one(slf, knd, k, decl, args, kwargs) ==
    LET i == IndexOf(slf.varnames, decl.argname)
        kw == kwargs_get(kwargs, decl.argname)
    IN  IF i < 0
        THEN Entry(k, decl, "no_formal", FALSE, None, NoExc)
        ELSE IF ~Truthy(kw) /\ i >= Len(args)
        THEN \* arg or args[i] raised IndexError
             Entry(k, decl, "no_actual", FALSE, None, NoExc)
        ELSE LET arg == IF Truthy(kw) THEN kw ELSE args[i + 1]
                 di == default_index(slf, i)
             IN  IF di >= 0 /\ di >= Len(slf.defaults)
                 THEN \* self.defaults[default_index] raises IndexError
                      Entry(k, decl, "raise", TRUE, arg,
                            Exc("IndexError", NoMsg))
                 ELSE IF di >= 0 /\ arg = slf.defaults[di + 1]
                 THEN Entry(k, decl, "default", TRUE, arg, NoExc)
                 ELSE LET e == check_arg(knd, slf, arg, decl.argcond,
                                         decl.exception)
                      IN  Entry(k, decl,
                                IF e.raised THEN "raise" ELSE "ok",
                                TRUE, arg, e)

RECURSIVE check_args_from(_, _, _, _, _, _, _)
check_args_from(slf, knd, chks, k, args, kwargs, acc) ==
    IF k > Len(chks) THEN acc
    ELSE LET r == check_one(slf, knd, k, chks[k], args, kwargs)
         IN  IF r.status = "raise" THEN Append(acc, r)
             ELSE check_args_from(slf, knd, chks, k + 1, args, kwargs,
                                  Append(acc, r))

\* check_args(args, kwargs): the turns of the loop, the last one raising if
\* any does
check_args(slf, knd, chks, args, kwargs) ==
    check_args_from(slf, knd, chks, 1, args, kwargs, <<>>)

----------------------------------------------------------------------------
(* validate_base.__call__: wrapper(f, *args, **kwargs) *)

Unset == [nargs |-> 0, defaults |-> <<>>, varnames |-> <<>>,
          file |-> "", line |-> 0]

\* the five attribute writes of wrapper
SelfOf(fn) ==
    [nargs |-> fn.co_argcount, defaults |-> fn.func_defaults,
     varnames |-> fn.co_varnames, file |-> fn.co_filename,
     line |-> fn.co_firstlineno + 1]

Raised(trace) == Len(trace) > 0 /\ trace[Len(trace)].status = "raise"

\* mutant: f is called before the checks run
CallRecord_invoke_first(fn, args, kwargs, g, reen, trace) ==
    [called |-> TRUE, fn |-> fn, args |-> args, kwargs |-> kwargs,
     gate |-> g, reen |-> reen, trace |-> trace,
     raised |-> Raised(trace),
     exc |-> IF Raised(trace) THEN trace[Len(trace)].exc ELSE "",
     msg |-> IF Raised(trace) THEN trace[Len(trace)].msg ELSE NoMsg,
     invoked |-> 1,
     fargs |-> <<args, kwargs>>,
     ret |-> FResult(fn, args, kwargs)]

\* the record of one call of wrapper, from the gate it read, the decorator
\* attributes its checks read and what check_args did
CallRecord(fn, args, kwargs, g, reen, trace) ==
    [called |-> TRUE, fn |-> fn, args |-> args, kwargs |-> kwargs,
     gate |-> g, reen |-> reen, trace |-> trace,
     raised |-> Raised(trace),
     exc |-> IF Raised(trace) THEN trace[Len(trace)].exc ELSE "",
     msg |-> IF Raised(trace) THEN trace[Len(trace)].msg ELSE NoMsg,
     invoked |-> IF Raised(trace) THEN 0 ELSE 1,
     fargs |-> IF Raised(trace) THEN <<>> ELSE <<args, kwargs>>,
     ret |-> IF Raised(trace) THEN FResult(fn, <<>>, <<>>)
             ELSE FResult(fn, args, kwargs)]

NoCall == [called |-> FALSE]

\* mutant: the checks run whatever the gate is
wrapper_result_ungated(fn, args, kwargs, g, reen) ==
    CallRecord(fn, args, kwargs, g, reen,
               check_args(SelfOf(fn), kind, checks, args, kwargs))

\* what wrapper does when no other thread runs between its lines: g is the
\* gate it reads
wrapper_result(fn, args, kwargs, g, reen) ==
    CallRecord(fn, args, kwargs, g, reen,
               IF g THEN check_args(SelfOf(fn), kind, checks, args, kwargs)
               ELSE <<>>)

\* wrapper, run to completion with no other thread
wrapper(fn, args, kwargs) ==
    /\ self' = IF gate THEN SelfOf(fn) ELSE self
    /\ last' = wrapper_result(fn, args, kwargs, gate, reenabled)
    /\ UNCHANGED <<gate, reenabled, kind, checks, decorated, th, vr>>

\* the calls of each function, one after the other
SeqCalls == [fn \in Functions |-> Calls(fn, Vals(MaxInt), MaxSupplied)]

Call ==
    \E fn \in decorated :
        \E c \in SeqCalls[fn] :
            wrapper(fn, c.args, c.kwargs)

\* the owner of the configuration sets configuration["type_check"]
SetGate ==
    /\ gate' = ~gate
    /\ reenabled' = (reenabled \/ ~gate)
    /\ UNCHANGED <<kind, checks, decorated, self, last, th, vr>>

NoThreads == <<>>
NoVerify == [pc |-> "none"]

Init ==
    /\ gate = TRUE
    /\ reenabled = FALSE
    /\ \E d \in 1..Len(Decorators) :
          /\ kind = Decorators[d].kind
          /\ checks = Decorators[d].checks
    /\ \E fn \in Functions : decorated = {fn}
    /\ self = Unset
    /\ last = NoCall
    /\ th = NoThreads
    /\ vr = NoVerify

Next == Call \/ SetGate

Spec == Init /\ [][Next]_vars

----------------------------------------------------------------------------
(* Threads calling functions decorated by the same decorator object.  A   *)
(* thread switch can fall between any two lines of wrapper and between     *)
(* two turns of the loop of check_args.                                    *)

Threads == {1, 2}

Idle == [pc |-> "idle"]

\* the calls the threads make of each function
MTCalls == [fn \in Functions |-> Calls(fn, Vals(MTMaxInt), MTMaxSupplied)]

\* line 124: the call enters wrapper and reads the gate
T_Enter(t) ==
    /\ th[t].pc = "idle"
    /\ \E fn \in decorated :
          \E c \in MTCalls[fn] :
              th' = [th EXCEPT ![t] =
                        [pc |-> IF gate THEN "nargs" ELSE "invoke",
                         fn |-> fn, args |-> c.args, kwargs |-> c.kwargs,
                         gate |-> gate, k |-> 1, trace |-> <<>>]]
    /\ UNCHANGED <<gate, reenabled, kind, checks, decorated, self, last, vr>>

\* line 125
T_SetNargs(t) ==
    /\ th[t].pc = "nargs"
    /\ self' = [self EXCEPT !.nargs = th[t].fn.co_argcount]
    /\ th' = [th EXCEPT ![t].pc = "defaults"]
    /\ UNCHANGED <<gate, reenabled, kind, checks, decorated, last, vr>>

\* line 126
T_SetDefaults(t) ==
    /\ th[t].pc = "defaults"
    /\ self' = [self EXCEPT !.defaults = th[t].fn.func_defaults]
    /\ th' = [th EXCEPT ![t].pc = "varnames"]
    /\ UNCHANGED <<gate, reenabled, kind, checks, decorated, last, vr>>

\* line 127
T_SetVarnames(t) ==
    /\ th[t].pc = "varnames"
    /\ self' = [self EXCEPT !.varnames = th[t].fn.co_varnames]
    /\ th' = [th EXCEPT ![t].pc = "file"]
    /\ UNCHANGED <<gate, reenabled, kind, checks, decorated, last, vr>>

\* line 128
T_SetFile(t) ==
    /\ th[t].pc = "file"
    /\ self' = [self EXCEPT !.file = th[t].fn.co_filename]
    /\ th' = [th EXCEPT ![t].pc = "line"]
    /\ UNCHANGED <<gate, reenabled, kind, checks, decorated, last, vr>>

\* line 129
T_SetLine(t) ==
    /\ th[t].pc = "line"
    /\ self' = [self EXCEPT !.line = th[t].fn.co_firstlineno + 1]
    /\ th' = [th EXCEPT ![t].pc = "check"]
    /\ UNCHANGED <<gate, reenabled, kind, checks, decorated, last, vr>>

\* the call of thread t, finished with the turns of the loop in trace
Finish(t, trace) ==
    [pc |-> "done",
     result |-> CallRecord(th[t].fn, th[t].args, th[t].kwargs, th[t].gate,
                           FALSE, trace)]

\* lines 135-156: one turn of the loop of check_args, reading the
\* attributes of the decorator object as they are now; an exception ends
\* the call
T_Check(t) ==
    /\ th[t].pc = "check"
    /\ LET r == check_one(self, kind, th[t].k, checks[th[t].k],
                          th[t].args, th[t].kwargs)
           trace == Append(th[t].trace, r)
       IN  th' = [th EXCEPT ![t] =
                    IF r.status = "raise" THEN Finish(t, trace)
                    ELSE [@ EXCEPT !.trace = trace,
                                   !.k = @ + 1,
                                   !.pc = IF th[t].k = Len(checks)
                                          THEN "invoke" ELSE "check"]]
    /\ UNCHANGED <<gate, reenabled, kind, checks, decorated, self, last, vr>>

\* line 131: return f(*args, **kwargs)
T_Invoke(t) ==
    /\ th[t].pc = "invoke"
    /\ th' = [th EXCEPT ![t] = Finish(t, th[t].trace)]
    /\ UNCHANGED <<gate, reenabled, kind, checks, decorated, self, last, vr>>

InitMT ==
    /\ gate \in BOOLEAN
    /\ reenabled = FALSE
    /\ \E d \in 1..Len(Decorators) :
          /\ kind = Decorators[d].kind
          /\ checks = Decorators[d].checks
    /\ decorated = Functions
    /\ self = Unset
    /\ last = NoCall
    /\ th = [t \in Threads |-> Idle]
    /\ vr = NoVerify

NextMT ==
    \E t \in Threads :
        \/ T_Enter(t)
        \/ T_SetNargs(t)
        \/ T_SetDefaults(t)
        \/ T_SetVarnames(t)
        \/ T_SetFile(t)
        \/ T_SetLine(t)
        \/ T_Check(t)
        \/ T_Invoke(t)

SpecMT == InitMT /\ [][NextMT]_vars

----------------------------------------------------------------------------
(* verify_reshape(data, dtype, shape, allow_none)                          *)
(*                                                                         *)
(* data is None, a scalar, a list, a list of lists, or an ndarray; rows    *)
(* holds the elements of the first four, adtype/ashape/contig describe an  *)
(* ndarray.  t is the name of np.dtype(dtype), "" when dtype is None.      *)

Data(knd, rows, adtype, ashape, contig) ==
    [kind |-> knd, rows |-> rows, adtype |-> adtype, ashape |-> ashape,
     contig |-> contig]

DataNone == Data("none", <<>>, "", <<>>, TRUE)
DataScalar(e) == Data("scalar", <<<<e>>>>, "", <<>>, TRUE)
DataList(r) == Data("list", <<r>>, "", <<>>, TRUE)
DataNested(rs) == Data("nested", rs, "", <<>>, TRUE)
DataArray(adtype, ashape, contig) == Data("ndarray", <<>>, adtype, ashape, contig)

SeqsUpTo(S, n) == UNION {[1..m -> S] : m \in 0..n}

RECURSIVE Prod(_)
Prod(shape) == IF shape = <<>> THEN 1 ELSE Head(shape) * Prod(Tail(shape))

RECURSIVE Squeeze(_)
Squeeze(shape) ==
    IF shape = <<>> THEN <<>>
    ELSE IF Head(shape) = 1 THEN Squeeze(Tail(shape))
    ELSE <<Head(shape)>> \o Squeeze(Tail(shape))

RECURSIVE Flatten(_)
Flatten(rows) == IF rows = <<>> THEN <<>> ELSE Head(rows) \o Flatten(Tail(rows))

IsRect(rows) == \A j \in 1..Len(rows) : Len(rows[j]) = Len(rows[1])

NoArray == [ok |-> FALSE, dtype |-> "", shape |-> <<>>, contig |-> TRUE]
Array(dt, shape, contig) ==
    [ok |-> TRUE, dtype |-> dt, shape |-> shape, contig |-> contig]

\* the element type numpy infers for a list
Inferred(elems) ==
    IF elems = <<>> THEN "float64"
    ELSE IF \A j \in 1..Len(elems) : elems[j].ty = "int" THEN "int64"
    ELSE "str"

\* np.asarray(data, dtype=t) for data that is not None; ok is FALSE for
\* ValueError.  A list of rows of different lengths is an array of objects
\* when no element type is asked for.  An ndarray of the element type asked
\* for is returned as it is, any other is copied.
np_asarray(data, t) ==
    LET elems == Flatten(data.rows)
        conv == t = "" \/ \A j \in 1..Len(elems) : elems[j].ty = "int"
        dt == IF t = "" THEN Inferred(elems) ELSE t
    IN  CASE data.kind = "scalar" ->
                IF conv THEN Array(dt, <<>>, TRUE) ELSE NoArray
          [] data.kind = "list" ->
                IF conv THEN Array(dt, <<Len(elems)>>, TRUE) ELSE NoArray
          [] data.kind = "nested" ->
                IF IsRect(data.rows)
                THEN IF conv
                     THEN Array(dt, <<Len(data.rows), Len(data.rows[1])>>, TRUE)
                     ELSE NoArray
                ELSE IF t = "" THEN Array("object", <<Len(data.rows)>>, TRUE)
                     ELSE NoArray
          [] data.kind = "ndarray" ->
                IF t = "" \/ t = data.adtype
                THEN Array(data.adtype, data.ashape, data.contig)
                ELSE Array(t, data.ashape, TRUE)

NoOutcome == [status |-> "none", exc |-> "", template |-> "",
              fmtargs |-> <<>>, result |-> NoArray]
VReturn(a) == [status |-> "return", exc |-> "", template |-> "",
               fmtargs |-> <<>>, result |-> a]
VRaise(e, template, fmtargs) ==
    [status |-> "raise", exc |-> e, template |-> template,
     fmtargs |-> fmtargs, result |-> NoArray]

\* the array can take the shape without its elements being copied
InPlaceOk(a, shape) == a.contig \/ Squeeze(shape) = a.shape

\* mutant: absent data is let through when type checking is off
absent_allowed_gated(data, allow_none) ==
    data = DataNone /\ (allow_none \/ ~gate)

\* line 229: data is None and allow_none
absent_allowed(data, allow_none) == data = DataNone /\ allow_none

\* mutant: the two counts of the message exchanged
convert_and_reshape_swapped(data, dtype, t, shape, np_error) ==
    LET a == np_asarray(data, t)
        mismatch == VRaise("DataValueError",
                           "Invalid data: expected %d values, got %d!",
                           <<Prod(np_asarray(data, "").shape), Prod(shape)>>)
    IN  IF ~a.ok
        THEN VRaise("DataValueError", "Invalid data: cannot convert to %s!",
                    <<dtype>>)
        ELSE IF Prod(shape) # Prod(a.shape) THEN mismatch
        ELSE IF ~InPlaceOk(a, shape)
        THEN IF np_error = "ValueError" THEN mismatch
             ELSE VRaise(np_error, "", <<>>)
        ELSE VReturn(Array(a.dtype, shape, a.contig))

\* lines 233-245: convert, then set the shape in place.  The shape setter
\* raises ValueError when the number of elements differs, and np_error when
\* the elements would have to be copied.
convert_and_reshape(data, dtype, t, shape, np_error) ==
    LET a == np_asarray(data, t)
        mismatch == VRaise("DataValueError",
                           "Invalid data: expected %d values, got %d!",
                           <<Prod(shape), Prod(np_asarray(data, "").shape)>>)
    IN  IF ~a.ok
        THEN VRaise("DataValueError", "Invalid data: cannot convert to %s!",
                    <<dtype>>)
        ELSE IF Prod(shape) # Prod(a.shape) THEN mismatch
        ELSE IF ~InPlaceOk(a, shape)
        THEN IF np_error = "ValueError" THEN mismatch
             ELSE VRaise(np_error, "", <<>>)
        ELSE VReturn(Array(a.dtype, shape, a.contig))

verify_reshape(data, dtype, shape, allow_none, np_error) ==
    IF dtype # None /\ ~NpDtypeOk(dtype)
    THEN VRaise("DataTypeError", "Invalid data type: %s", <<dtype>>)
    ELSE LET t == IF dtype # None THEN NpDtype(dtype) ELSE ""
         IN  IF absent_allowed(data, allow_none)
             THEN VReturn(Array(IF t = "" THEN "float64" ELSE t, <<0>>, TRUE))
             ELSE IF data = DataNone
             THEN VRaise("DataValueError",
                         "Invalid data: None is not allowed!", <<>>)
             ELSE convert_and_reshape(data, dtype, t, shape, np_error)

Elems == {PyInt(1), StrBogus}

DataInputs ==
    {DataNone}
    \cup {DataScalar(e) : e \in Elems}
    \cup {DataList(r) : r \in SeqsUpTo(Elems, MaxLen)}
    \cup {DataNested(rs) :
            rs \in SeqsUpTo(SeqsUpTo({PyInt(1)}, MaxRows), MaxRows) \ {<<>>}}
    \cup {DataArray(dt, <<n>>, TRUE) : dt \in {"int32", "float64"}, n \in 0..MaxLen}
    \cup {DataArray(dt, <<r, c>>, cg) : dt \in {"int32", "float64"},
            r \in 2..MaxRows, c \in 2..MaxRows, cg \in BOOLEAN}

Descriptors == {None, StrInt32, StrFloat64, StrBogus}

Shapes == SeqsUpTo(0..MaxDim, MaxRank)

\* the error of the shape setter when the elements would have to be copied
NpErrors(data) ==
    IF data.contig THEN {"AttributeError"} ELSE {"AttributeError", "ValueError"}

Verify ==
    /\ vr.pc = "pending"
    /\ vr' = [vr EXCEPT !.pc = "done",
                        !.out = verify_reshape(vr.data, vr.dtype, vr.shape,
                                               vr.allow_none, vr.np_error)]
    /\ UNCHANGED <<gate, reenabled, kind, checks, decorated, self, last, th>>

InitV ==
    /\ gate \in BOOLEAN
    /\ reenabled = FALSE
    /\ kind = Decorators[1].kind
    /\ checks = Decorators[1].checks
    /\ decorated = {}
    /\ self = Unset
    /\ last = NoCall
    /\ th = NoThreads
    /\ \E data \in DataInputs, dtype \in Descriptors, shape \in Shapes,
          allow_none \in BOOLEAN :
          \E np_error \in NpErrors(data) :
              vr = [pc |-> "pending", data |-> data, dtype |-> dtype,
                    shape |-> shape, allow_none |-> allow_none,
                    np_error |-> np_error, out |-> NoOutcome]

NextV == Verify \/ SetGate

SpecV == InitV /\ [][NextV]_vars

----------------------------------------------------------------------------
(* What a call supplies, in the terms of the specification: formal         *)
(* parameters by position, 1-based, defaults aligned to the trailing ones. *)

PosOf(fn, name) == CHOOSE j \in 1..fn.co_argcount : fn.co_varnames[j] = name

IsSupplied(fn, args, kwargs, name) ==
    name \in DOMAIN kwargs \/ PosOf(fn, name) <= Len(args)

SuppliedValue(fn, args, kwargs, name) ==
    IF name \in DOMAIN kwargs THEN kwargs[name] ELSE args[PosOf(fn, name)]

FirstDefault(fn) == fn.co_argcount - Len(fn.func_defaults) + 1

HasDefault(fn, name) == PosOf(fn, name) >= FirstDefault(fn)

DefaultOf(fn, name) == fn.func_defaults[PosOf(fn, name) - FirstDefault(fn) + 1]

\* the predicate of each check kind
Satisfies(knd, v, cond) ==
    CASE knd = "validate_type" -> v.ty \in cond
      [] knd = "validate_in" -> v \in cond
      [] knd = "validate_range" -> PyLe(cond[1], v) /\ PyLe(v, cond[2])
      [] knd = "validate_dtype" -> NpDtypeOk(v)

\* the declaration at which the call c raised, 0 if it did not raise
RaisedAt(c) == IF c.raised THEN c.trace[Len(c.trace)].k ELSE 0

\* the call c went through its k-th declaration or raised at it
Reached(c, k) == ~c.raised \/ RaisedAt(c) >= k

Checked == last.called /\ last.gate

----------------------------------------------------------------------------
C2_NonFormalNeverRaises ==
    Checked =>
        \A n \in 1..Len(last.trace) :
            last.trace[n].argname \notin Formals(last.fn)
                => last.trace[n].status # "raise"

\* C3: a call made while the gate is false runs no check, does not raise
\* and invokes f; a call made while the gate is true raises the declared
\* error when its first declaration names a formal parameter supplied by
\* position with a true value other than its default that fails the
\* predicate, also after the gate was false and set true again; no call
\* changes the gate.
C3_CallStep ==
    (last' # last) =>
        /\ gate' = gate
        /\ last'.gate = gate
        /\ ~gate => /\ last'.trace = <<>>
                    /\ ~last'.raised
                    /\ last'.invoked = 1
        /\ gate =>
              LET d == checks[1]
                  fn == last'.fn
              IN  (/\ d.argname \in Formals(fn)
                   /\ PosOf(fn, d.argname) <= Len(last'.args))
                  =>
                  LET x == last'.args[PosOf(fn, d.argname)]
                  IN  (/\ Truthy(x)
                       /\ ~(HasDefault(fn, d.argname)
                            /\ x = DefaultOf(fn, d.argname))
                       /\ ~Satisfies(kind, x, d.argcond))
                      => (last'.raised /\ last'.exc = d.exception)

C3_GateDecidesEnforcement == [][C3_CallStep]_vars

\* a call made after the gate was false and set true again raised the error
\* of the first declaration
C3_Witness ==
    /\ last.called /\ last.gate /\ last.reen
    /\ last.raised /\ last.exc = checks[1].exception

C5_DefaultExempt ==
    Checked =>
        \A n \in 1..Len(last.trace) :
            LET e == last.trace[n]
                fn == last.fn
            IN  (e.argname \in Formals(fn)) =>
                    /\ ~IsSupplied(fn, last.args, last.kwargs, e.argname)
                          => e.status # "raise"
                    /\ (/\ IsSupplied(fn, last.args, last.kwargs, e.argname)
                        /\ HasDefault(fn, e.argname)
                        /\ SuppliedValue(fn, last.args, last.kwargs, e.argname)
                              = DefaultOf(fn, e.argname))
                          => e.status # "raise"
                    /\ (e.resolved /\ HasDefault(fn, e.argname)
                        /\ e.value = DefaultOf(fn, e.argname))
                          => e.status # "raise"
                    /\ e.status = "default"
                          => /\ HasDefault(fn, e.argname)
                             /\ e.value = DefaultOf(fn, e.argname)

\* a value that fails the predicate was exempted because it is the default
\* of its parameter, in a call whose other checked parameter has no default
C5_Witness ==
    /\ Checked /\ last.fn = F1 /\ ~last.raised
    /\ \E n \in 1..Len(last.trace) :
          /\ last.trace[n].status = "default"
          /\ last.trace[n].argname = "y"
          /\ ~Satisfies(kind, last.trace[n].value, checks[last.trace[n].k].argcond)
    /\ \E n \in 1..Len(last.trace) :
          /\ last.trace[n].status = "ok"
          /\ last.trace[n].argname = "x"

\* C6: a call invokes f at most once: exactly once, with the arguments of
\* the call, returning f's result, when no check raised; not at all when a
\* check raised.
C6_InvokedOnce ==
    last.called =>
        /\ last.invoked <= 1
        /\ (\E n \in 1..Len(last.trace) : last.trace[n].status = "raise")
              => (last.raised /\ last.invoked = 0)
        /\ (\A n \in 1..Len(last.trace) : last.trace[n].status # "raise")
              => /\ ~last.raised
                 /\ last.invoked = 1
                 /\ last.fargs = <<last.args, last.kwargs>>
                 /\ last.ret = FResult(last.fn, last.args, last.kwargs)

\* a call with the gate enabled whose checks all passed invoked f
C6_WitnessPass ==
    /\ Checked /\ ~last.raised /\ last.invoked = 1
    /\ \E n \in 1..Len(last.trace) : last.trace[n].status = "ok"

\* C10: every contract violation raised is of the error kind of the failing
\* declaration and its message carries the source location of f, the name
\* of the parameter, the offending value and the violated domain.
C10_MessageComplete ==
    (Checked /\ last.raised /\ last.exc # "IndexError") =>
        LET e == last.trace[Len(last.trace)]
            d == checks[e.k]
            fa == last.msg.fmtargs
        IN  /\ last.exc = d.exception
            /\ last.msg.file = last.fn.co_filename
            /\ last.msg.line \in {last.fn.co_firstlineno,
                                  last.fn.co_firstlineno + 1}
            /\ \E j \in 1..Len(fa) : fa[j].tag = "name" /\ fa[j].x = d.argname
            /\ \E j \in 1..Len(fa) : fa[j].tag = "value" /\ fa[j].x = e.value
            /\ \E j \in 1..Len(fa) : fa[j].tag = "domain" /\ fa[j].x = d.argcond

\* C7: under any interleaving of concurrent calls through one decorator
\* object, each call raises or returns exactly as it would when run alone.
C7_AsIfAlone ==
    \A t \in DOMAIN th :
        th[t].pc = "done" =>
            th[t].result = wrapper_result(th[t].result.fn, th[t].result.args,
                                          th[t].result.kwargs,
                                          th[t].result.gate, FALSE)

Verified == vr.pc = "done"

\* C8: for a valid descriptor and absent data, verify returns an empty
\* container of that descriptor when allow_absent is true and raises the
\* value-taxonomy error when it is false; for an invalid descriptor it
\* raises the type-taxonomy error whatever the data and allow_absent are;
\* whatever the gate is.
C8_AbsentAndInvalid ==
    Verified =>
        /\ (vr.dtype \in {StrInt32, StrFloat64} /\ vr.data = DataNone)
              => IF vr.allow_none
                 THEN /\ vr.out.status = "return"
                      /\ vr.out.result.dtype =
                            (IF vr.dtype = StrInt32 THEN "int32" ELSE "float64")
                      /\ Prod(vr.out.result.shape) = 0
                 ELSE /\ vr.out.status = "raise"
                      /\ vr.out.exc = "DataValueError"
        /\ (vr.dtype \notin {None, StrInt32, StrFloat64})
              => /\ vr.out.status = "raise"
                 /\ vr.out.exc = "DataTypeError"

\* absent data was refused while the gate was false
C8_Witness ==
    /\ Verified /\ ~gate /\ vr.data = DataNone /\ ~vr.allow_none
    /\ vr.dtype = StrInt32 /\ vr.out.exc = "DataValueError"

\* the number of elements of data
Count(data) ==
    IF data.kind = "ndarray" THEN Prod(data.ashape)
    ELSE Len(Flatten(data.rows))

\* data that the descriptor can hold: numbers, in rows of one length
Convertible(data) ==
    /\ data # DataNone
    /\ IsRect(data.rows)
    /\ \A j \in 1..Len(Flatten(data.rows)) : Flatten(data.rows)[j].ty = "int"

C9_Body ==
    IF Count(vr.data) = Prod(vr.shape)
    THEN /\ vr.out.status = "return"
         /\ vr.out.result.shape = vr.shape
         /\ vr.out.result.dtype = NpDtype(vr.dtype)
    ELSE /\ vr.out.status = "raise"
         /\ vr.out.exc = "DataValueError"
         /\ vr.out.fmtargs = <<Prod(vr.shape), Count(vr.data)>>

====
